---- MODULE Spec2Model ----
(***************************************************************************)
(* Model of src/src/utils.ts: useFetchInterceptor / useFetchTracker.       *)
(*                                                                         *)
(* JavaScript strings that the code parses (keys, URLs, patterns, methods) *)
(* are sequences of one-character strings.  Header names, header values,   *)
(* bodies and callbacks are opaque and are plain TLA+ strings.             *)
(* A JavaScript Map is a sequence of [key, val] records in insertion order.*)
(* A header bag (Record<string,string>) is a function on a set of names.   *)
(***************************************************************************)
EXTENDS Integers, Sequences, FiniteSets, TLC

\* ------------------------------------------------------------------ bounds
\* total number of add() calls in a run
MaxAdds == 2
\* total number of network calls (live and replayed) in a run
MaxCalls == 2

\* the caller sessions (useFetchInterceptor instances) of the process
SessionIds == {1, 2}

\* ------------------------------------------------------- string primitives
\* String.prototype.toUpperCase on one character of the model's alphabet
UpperChar(c) ==
  CASE c = "g" -> "G" [] c = "e" -> "E" [] c = "t" -> "T"
    [] c = "p" -> "P" [] c = "o" -> "O" [] c = "s" -> "S"
    [] c = "x" -> "X" [] c = "u" -> "U" [] c = "v" -> "V"
    [] c = "i" -> "I" [] c = "d" -> "D" [] c = "q" -> "Q"
    [] c = "a" -> "A" [] c = "b" -> "B"
    [] OTHER -> c

ToUpperCase(s) == [i \in 1..Len(s) |-> UpperChar(s[i])]

\* s.slice(n) with a 0-based start n
SliceFrom(s, n) == IF n >= Len(s) THEN <<>> ELSE SubSeq(s, n + 1, Len(s))

\* s.slice(0, n)
SliceTo(s, n) == IF n <= 0 THEN <<>> ELSE SubSeq(s, 1, IF n > Len(s) THEN Len(s) ELSE n)

StartsWith(s, p) == Len(p) <= Len(s) /\ SubSeq(s, 1, Len(p)) = p

EndsWith(s, p) == Len(p) <= Len(s) /\ SubSeq(s, Len(s) - Len(p) + 1, Len(s)) = p

\* startsWith in the place of includes
IncludesAtStart(s, p) == Len(p) <= Len(s) /\ SubSeq(s, 1, Len(p)) = p

\* s.includes(p)
Includes(s, p) == \E i \in 0..(Len(s) - Len(p)) : SubSeq(s, i + 1, i + Len(p)) = p

\* s.indexOf(c) for a one-character c: 0-based, -1 when absent
IndexOf(s, c) ==
  IF \E i \in 1..Len(s) : s[i] = c
  THEN (CHOOSE i \in 1..Len(s) : s[i] = c /\ \A j \in 1..(i - 1) : s[j] # c) - 1
  ELSE -1

\* s.split(c) for a one-character separator c
RECURSIVE Split(_, _)
Split(s, c) ==
  LET i == IndexOf(s, c)
  IN  IF i = -1 THEN <<s>>
      ELSE <<SliceTo(s, i)>> \o Split(SliceFrom(s, i + 1), c)

\* ---------------------------------------------------------- Map primitives
MapKeys(m) == {m[i].key : i \in 1..Len(m)}

MapHas(m, k) == k \in MapKeys(m)

MapGet(m, k) == m[CHOOSE i \in 1..Len(m) : m[i].key = k].val

\* Map.prototype.set: an existing key keeps its position
MapSet(m, k, v) ==
  IF MapHas(m, k)
  THEN [i \in 1..Len(m) |-> IF m[i].key = k THEN [key |-> k, val |-> v] ELSE m[i]]
  ELSE Append(m, [key |-> k, val |-> v])

MapDelete(m, k) == SelectSeq(m, LAMBDA e : e.key # k)

\* { ...a, ...b } on header bags
Spread(a, b) == [h \in DOMAIN a \cup DOMAIN b |-> IF h \in DOMAIN b THEN b[h] ELSE a[h]]

NoHeaders == [h \in {} |-> ""]

\* ------------------------------------------------------------ Pattern Matcher
\* a pattern is a string or a RegExp object
Str(text) == [type |-> "string", text |-> text]
RegExp(source) == [type |-> "regexp", text |-> source]

\* RegExp.prototype.test for the expressions of the model: a source without
\* metacharacters and without the g flag, which matches anywhere in the subject
RegExpTest(pattern, subject) == Includes(subject, pattern.text)

NoMatch == [ok |-> FALSE, params |-> <<>>]

\* the loop storing the segment as it is, colon included, as the token's name
RECURSIVE TokenParamsWithColon(_, _, _, _)
TokenParamsWithColon(patternParts, urlParts, i, params) ==
  IF i > Len(patternParts) THEN params
  ELSE IF StartsWith(patternParts[i], <<":">>)
       THEN TokenParamsWithColon(patternParts, urlParts, i + 1,
                                 MapSet(params, patternParts[i], urlParts[i]))
       ELSE TokenParamsWithColon(patternParts, urlParts, i + 1, params)

\* the loop over the pattern's segments: the params collected from segment i on
RECURSIVE TokenParams(_, _, _, _)
TokenParams(patternParts, urlParts, i, params) ==
  IF i > Len(patternParts) THEN params
  ELSE IF StartsWith(patternParts[i], <<":">>)
       THEN TokenParams(patternParts, urlParts, i + 1,
                        MapSet(params, SliceFrom(patternParts[i], 1), urlParts[i]))
       ELSE TokenParams(patternParts, urlParts, i + 1, params)

\* matchPattern of a session whose normalized base path is base:
\* false, or { params }
MatchPattern(base, url, pattern) ==
  LET urlToMatch == IF StartsWith(url, base) THEN SliceFrom(url, Len(base)) ELSE url
      urlPath == Split(urlToMatch, "?")[1]
  IN  IF pattern.type = "regexp"
      THEN IF RegExpTest(pattern, urlPath) THEN [ok |-> TRUE, params |-> <<>>] ELSE NoMatch
      ELSE LET patternPath == Split(pattern.text, "?")[1]
           IN  IF Includes(patternPath, <<":">>)
               THEN LET patternParts == Split(patternPath, "/")
                        urlParts == Split(urlPath, "/")
                    IN  IF Len(patternParts) # Len(urlParts) THEN NoMatch
                        ELSE IF \E i \in 1..Len(patternParts) :
                                  /\ ~StartsWith(patternParts[i], <<":">>)
                                  /\ patternParts[i] # urlParts[i]
                             THEN NoMatch
                             ELSE [ok |-> TRUE,
                                   params |-> TokenParams(patternParts, urlParts, 1, <<>>)]
               ELSE IF Includes(urlPath, patternPath)
                    THEN [ok |-> TRUE, params |-> <<>>]
                    ELSE NoMatch

\* ------------------------------------------------------------- key parsing
ParseKey(key) ==
  LET colonIndex == IndexOf(key, ":")
  IN  IF colonIndex = -1
      THEN [verb |-> <<"G", "E", "T">>, name |-> key]
      ELSE [verb |-> ToUpperCase(SliceTo(key, colonIndex)),
            name |-> SliceFrom(key, colonIndex + 1)]

\* `${verb}:${name}`
FullKey(key) == ParseKey(key).verb \o <<":">> \o ParseKey(key).name

NormalizeBasePath(path) ==
  IF EndsWith(path, <<"/">>) THEN SliceTo(path, Len(path) - 1) ELSE path

\* --------------------------------------------------------------- buildUrl
\* \w of a regular expression
WordChars ==
  {"a", "b", "d", "e", "g", "i", "o", "p", "q", "s", "t", "u", "v", "x",
   "A", "B", "D", "E", "G", "I", "O", "P", "Q", "S", "T", "U", "V", "X",
   "0", "1", "2", "3", "4", "5", "6", "7", "8", "9", "_"}

\* encodeURIComponent on one character
EncodeChar(c) ==
  CASE c = " " -> <<"%", "2", "0">>
    [] c = "/" -> <<"%", "2", "F">>
    [] c = "?" -> <<"%", "3", "F">>
    [] c = "&" -> <<"%", "2", "6">>
    [] c = "=" -> <<"%", "3", "D">>
    [] c = ":" -> <<"%", "3", "A">>
    [] c = "%" -> <<"%", "2", "5">>
    [] OTHER -> <<c>>

RECURSIVE EncodeURIComponent(_)
EncodeURIComponent(s) ==
  IF s = <<>> THEN <<>> ELSE EncodeChar(Head(s)) \o EncodeURIComponent(Tail(s))

\* length of the longest run of \w characters of s that starts at index i
RECURSIVE WordRun(_, _)
WordRun(s, i) ==
  IF i <= Len(s) /\ s[i] \in WordChars THEN 1 + WordRun(s, i + 1) ELSE 0

\* url.replace(/:(\w+)/g, ...) from index i on: the rewritten text and the
\* params not yet consumed
RECURSIVE ReplaceTokens(_, _, _, _)
ReplaceTokens(url, i, out, queryParams) ==
  IF i > Len(url) THEN [url |-> out, queryParams |-> queryParams]
  ELSE LET n == IF url[i] = ":" THEN WordRun(url, i + 1) ELSE 0
           token == SubSeq(url, i + 1, i + n)
       IN  IF n = 0
           THEN ReplaceTokens(url, i + 1, Append(out, url[i]), queryParams)
           ELSE IF MapHas(queryParams, token)
                THEN ReplaceTokens(url, i + 1 + n, out \o MapGet(queryParams, token),
                                   MapDelete(queryParams, token))
                ELSE ReplaceTokens(url, i + 1 + n, out \o SubSeq(url, i, i + n),
                                   queryParams)

\* remainingParams.map(...).join('&')
RECURSIVE QueryString(_)
QueryString(queryParams) ==
  IF queryParams = <<>> THEN <<>>
  ELSE LET e == Head(queryParams)
           pair == EncodeURIComponent(e.key) \o <<"=">> \o EncodeURIComponent(e.val)
       IN  IF Len(queryParams) = 1 THEN pair
           ELSE pair \o <<"&">> \o QueryString(Tail(queryParams))

BuildUrl(base, pattern, params) ==
  LET r == ReplaceTokens(base \o pattern, 1, <<>>, params)
  IN  IF Len(r.queryParams) > 0
      THEN r.url \o (IF Includes(r.url, <<"?">>) THEN <<"&">> ELSE <<"?">>)
                 \o QueryString(r.queryParams)
      ELSE r.url

\* ------------------------------------------------------------------ inputs
GET == <<"G", "E", "T">>
POST == <<"P", "O", "S", "T">>

\* the arguments of useFetchInterceptor(basePath, options) of each session;
\* an absent options.headers is the empty bag, an absent options.requiredHeaders
\* the empty list (the code reads both through `|| {}` and `|| []`)
SessionArgs(s) ==
  IF s = 1
  THEN [basePath |-> <<>>, headers |-> [h \in {"A"} |-> "1"], requiredHeaders |-> <<>>]
  ELSE [basePath |-> <<"/", "a", "/">>, headers |-> NoHeaders,
        requiredHeaders |-> <<"A">>]

\* keys passed to add, remove and call
KeyX == <<"x">>
KeyY == <<"y">>
KeyPostX == <<"p", "o", "s", "t", ":", "x">>

RawKeys == {KeyX, KeyY, KeyPostX}

\* (pattern, handler, requiredHeaders) passed to add
RegTokens ==
  [pattern |-> Str(<<"/", "u", "/", ":", "i", "d">>), handler |-> "h1",
   requiredHeaders |-> <<>>]
RegRegExp ==
  [pattern |-> RegExp(<<"8">>), handler |-> "h2", requiredHeaders |-> <<"B">>]

Registrations == {RegTokens, RegRegExp}

\* a pattern that names one token twice, and one with a token in its query
RegTwice ==
  [pattern |-> Str(<<"/", "u", "/", ":", "i", "d", "/", ":", "i", "d">>), handler |-> "h3",
   requiredHeaders |-> <<>>]
RegQuery ==
  [pattern |-> Str(<<"/", "u", "?", "v", "=", ":", "i", "d">>), handler |-> "h4",
   requiredHeaders |-> <<>>]

UrlRegistrations == {RegTokens, RegTwice, RegQuery}

\* plain patterns: a path, a path with a query, a path under the base path of
\* session 2
RegPlain ==
  [pattern |-> Str(<<"/", "u">>), handler |-> "h5", requiredHeaders |-> <<>>]
RegPlainQuery ==
  [pattern |-> Str(<<"/", "u", "?", "x">>), handler |-> "h6", requiredHeaders |-> <<>>]
RegPlainBase ==
  [pattern |-> Str(<<"/", "a", "/", "u">>), handler |-> "h7", requiredHeaders |-> <<>>]

MatchRegistrations == {RegTokens, RegTwice, RegPlain, RegPlainQuery, RegPlainBase}

\* an absent body
Undefined == "undefined"

\* URLs fetched by the page
UrlUser == <<"/", "u", "/", "7">>
UrlBased == <<"/", "a", "/", "u", "/", "8", "?", "q">>

Urls == {UrlUser, UrlBased}

\* URLs with one segment more, and with an empty last segment
UrlTwo == <<"/", "u", "/", "7", "/", "8">>
UrlEmpty == <<"/", "u", "/">>

MatchUrls == {UrlUser, UrlBased, UrlTwo, UrlEmpty}

\* the init argument of the page's fetch calls; an absent method is the empty
\* string and absent headers the empty bag (the code reads both through `||`)
InitPlain == [method |-> <<>>, headers |-> NoHeaders, body |-> Undefined]
InitHeaders == [method |-> <<>>, headers |-> [h \in {"A", "B"} |-> "2"], body |-> Undefined]
InitPost ==
  [method |-> <<"p", "o", "s", "t">>, headers |-> [h \in {"A", "B"} |-> "2"],
   body |-> "b1"]

Inits == {InitPlain, InitHeaders, InitPost}

\* params passed to call
ParamsNone == <<>>
ParamsId == <<[key |-> <<"i", "d">>, val |-> <<"7">>]>>

ParamBags == {ParamsNone, ParamsId}

\* params with an entry beside the token's, whose value needs encoding
ParamsIdQ ==
  <<[key |-> <<"i", "d">>, val |-> <<"7">>], [key |-> <<"q">>, val |-> <<"a", " ", "b">>]>>

UrlParamBags == {ParamsNone, ParamsId, ParamsIdQ}

\* options passed to call
OptionsNone == [headers |-> NoHeaders, body |-> Undefined]
OptionsHeaders == [headers |-> [h \in {"A", "B"} |-> "3"], body |-> Undefined]

CallOptions == {OptionsNone, OptionsHeaders}

\* call-time headers that override one cached header, and a call-time header
\* whose value is the empty string
OptionsB == [headers |-> [h \in {"B"} |-> "3"], body |-> Undefined]
OptionsEmptyA == [headers |-> [h \in {"A"} |-> ""], body |-> Undefined]

HeaderOptions == {OptionsNone, OptionsB, OptionsEmptyA}

\* the full keys the keys above resolve to
AllFullKeys == {<<"G", "E", "T", ":", "x">>, <<"G", "E", "T", ":", "y">>,
                <<"P", "O", "S", "T", ":", "x">>}

\* ------------------------------------------------------------------- state
VARIABLES
  windowFetch,   \* window.fetch
  responseJson,  \* Response.prototype.json
  cache,         \* window.__fetchInterceptorCache
  sessions,      \* per session: its closure variables (handlers, defaults)
  calls,         \* the network calls issued so far, each with its progress
  nAdds,         \* number of add() calls so far
  firstMatch,    \* history: per full key, what the json wrapper read off the
                 \* first response that matched the key since its last remove
  lastOp         \* the operation that produced this state: its kind, session
                 \* and key, the call it acted on, what it threw or invoked

vars == <<windowFetch, responseJson, cache, sessions, calls, nAdds, firstMatch, lastOp>>

\* function identities
NativeFetch == [kind |-> "native", name |-> "fetch"]
NativeJson == [kind |-> "native", name |-> "json"]
Null == [kind |-> "null"]

\* the closures ensurePatched of session s creates
FetchWrapper(s) == [kind |-> "wrapper", by |-> s]
JsonWrapper(s, originalJson) == [kind |-> "wrapper", by |-> s, orig |-> originalJson]

NewCache ==
  [requests |-> <<>>, headers |-> NoHeaders, accessedEndpoints |-> {},
   isPatched |-> FALSE, originalFetch |-> Null, originalJson |-> Null,
   allHandlers |-> <<>>]

NoSession ==
  [created |-> FALSE, normalizedBasePath |-> <<>>, defaultHeaders |-> NoHeaders,
   defaultRequiredHeaders |-> <<>>, handlers |-> <<>>]

\* who called fetch: the page, or call() of session s, whose frame holds the
\* key, the params and the handler (id) it looked up
Page == [s |-> 0, key |-> <<>>, params |-> <<>>, id |-> 0]
Replay(s, key, params, id) == [s |-> s, key |-> key, params |-> params, id |-> id]

\* a call that has run to its end: nothing of it is left in flight
Done ==
  [origin |-> Page, url |-> <<>>,
   init |-> [method |-> <<>>, headers |-> NoHeaders, body |-> Undefined],
   wrapped |-> FALSE, pc |-> "done", viaWrapper |-> FALSE]

NoMeta == [url |-> <<>>, method |-> <<>>, headers |-> NoHeaders, body |-> Undefined]

Op(op) ==
  [op |-> op, s |-> 0, key |-> <<>>, params |-> <<>>, options |-> OptionsNone,
   call |-> 0, out |-> "", invoked |-> <<>>, meta |-> NoMeta, viaWrapper |-> FALSE]

\* an operation of session s on key
OpOf(op, s, key) == [Op(op) EXCEPT !.s = s, !.key = key]

\* call(key, params, options) of session s
OpCall(s, key, params, options) ==
  [OpOf("call", s, key) EXCEPT !.params = params, !.options = options]

Init ==
  /\ windowFetch = NativeFetch
  /\ responseJson = NativeJson
  /\ cache = NewCache
  /\ sessions = [s \in SessionIds |-> NoSession]
  /\ calls = <<>>
  /\ nAdds = 0
  /\ firstMatch = [k \in AllFullKeys |-> NoMeta]
  /\ lastOp = Op("init")

\* ------------------------------------------------------ useFetchInterceptor
UseFetchInterceptor(s) ==
  /\ ~sessions[s].created
  /\ sessions' = [sessions EXCEPT ![s] =
       [created |-> TRUE,
        normalizedBasePath |-> NormalizeBasePath(SessionArgs(s).basePath),
        defaultHeaders |-> Spread(cache.headers, SessionArgs(s).headers),
        defaultRequiredHeaders |-> SessionArgs(s).requiredHeaders,
        handlers |-> <<>>]]
  /\ lastOp' = OpOf("useFetchInterceptor", s, <<>>)
  /\ UNCHANGED <<windowFetch, responseJson, cache, calls, nAdds, firstMatch>>

\* --------------------------------------------------------- ensurePatched
\* ensurePatched without its `if (cache.isPatched) return`
EnsurePatchedUnguarded(s, w) ==
  [cache |-> [w.cache EXCEPT !.originalFetch = w.fetch,
                             !.originalJson = w.json,
                             !.isPatched = TRUE],
   fetch |-> FetchWrapper(s),
   json |-> JsonWrapper(s, w.json)]

\* on the world w = [cache, fetch, json], run by session s
EnsurePatched(s, w) ==
  IF w.cache.isPatched THEN w
  ELSE [cache |-> [w.cache EXCEPT !.originalFetch = w.fetch,
                                  !.originalJson = w.json,
                                  !.isPatched = TRUE],
        fetch |-> FetchWrapper(s),
        json |-> JsonWrapper(s, w.json)]

World == [cache |-> cache, fetch |-> windowFetch, json |-> responseJson]

\* ------------------------------------------------------------------- add
\* the HandlerConfig add builds; id stands for the identity of the object
NewConfig(s, key, reg, id) ==
  [pattern |-> reg.pattern,
   handler |-> reg.handler,
   verb |-> ParseKey(key).verb,
   requiredHeaders |-> sessions[s].defaultRequiredHeaders \o reg.requiredHeaders,
   matchBase |-> sessions[s].normalizedBasePath,
   id |-> id]

Add(s, key, reg) ==
  /\ sessions[s].created
  /\ nAdds < MaxAdds
  /\ LET w == EnsurePatched(s, World)
         config == NewConfig(s, key, reg, nAdds + 1)
     IN  /\ windowFetch' = w.fetch
         /\ responseJson' = w.json
         /\ cache' = [w.cache EXCEPT !.allHandlers = MapSet(@, FullKey(key), config)]
         /\ sessions' = [sessions EXCEPT ![s].handlers = MapSet(@, FullKey(key), config)]
  /\ nAdds' = nAdds + 1
  /\ lastOp' = OpOf("add", s, key)
  /\ UNCHANGED <<calls, firstMatch>>

\* ---------------------------------------------------------------- remove
\* remove without its cache.allHandlers.delete(fullKey)
RemoveFromCacheKeepsHandler(c, fullKey) ==
  [c EXCEPT !.requests = MapDelete(@, fullKey)]

\* remove without its cachedRequests.delete(fullKey)
RemoveFromCacheKeepsRequest(c, fullKey) ==
  [c EXCEPT !.allHandlers = MapDelete(@, fullKey)]

\* the shared cache after remove(key)
RemoveFromCache(c, fullKey) ==
  [c EXCEPT !.allHandlers = MapDelete(@, fullKey),
            !.requests = MapDelete(@, fullKey)]

Remove(s, key) ==
  /\ sessions[s].created
  /\ sessions' = [sessions EXCEPT ![s].handlers = MapDelete(@, FullKey(key))]
  /\ cache' = RemoveFromCache(cache, FullKey(key))
  /\ firstMatch' = [firstMatch EXCEPT ![FullKey(key)] = NoMeta]
  /\ lastOp' = [OpOf("remove", s, key) EXCEPT
                  !.out = IF MapHas(cache.requests, FullKey(key)) THEN "purged" ELSE ""]
  /\ UNCHANGED <<windowFetch, responseJson, calls, nAdds>>

\* --------------------------------------------------------------- restore
\* for (const key of handlers.keys()) cache.allHandlers.delete(key)
RECURSIVE DeleteAll(_, _)
DeleteAll(allHandlers, handlers) ==
  IF handlers = <<>> THEN allHandlers
  ELSE DeleteAll(MapDelete(allHandlers, Head(handlers).key), Tail(handlers))

\* restore that puts back window.fetch and forgets Response.prototype.json
RestoreWorldFetchOnly(w, handlers) ==
  LET c == [w.cache EXCEPT !.allHandlers = DeleteAll(@, handlers)]
  IN  IF Len(c.allHandlers) = 0 /\ c.isPatched
      THEN [cache |-> [c EXCEPT !.isPatched = FALSE],
            fetch |-> c.originalFetch,
            json |-> w.json]
      ELSE [w EXCEPT !.cache = c]

\* restore that unpatches without looking at the handlers that remain
RestoreWorldAlways(w, handlers) ==
  LET c == [w.cache EXCEPT !.allHandlers = DeleteAll(@, handlers)]
  IN  IF c.isPatched
      THEN [cache |-> [c EXCEPT !.isPatched = FALSE],
            fetch |-> c.originalFetch,
            json |-> c.originalJson]
      ELSE [w EXCEPT !.cache = c]

\* the world after restore() of a session whose local registry is handlers
RestoreWorld(w, handlers) ==
  LET c == [w.cache EXCEPT !.allHandlers = DeleteAll(@, handlers)]
  IN  IF Len(c.allHandlers) = 0 /\ c.isPatched
      THEN [cache |-> [c EXCEPT !.isPatched = FALSE],
            fetch |-> c.originalFetch,
            json |-> c.originalJson]
      ELSE [w EXCEPT !.cache = c]

Restore(s) ==
  /\ sessions[s].created
  /\ LET w == RestoreWorld(World, sessions[s].handlers)
     IN  /\ windowFetch' = w.fetch
         /\ responseJson' = w.json
         /\ cache' = w.cache
  /\ sessions' = [sessions EXCEPT ![s].handlers = <<>>]
  /\ lastOp' = OpOf("restore", s, <<>>)
  /\ UNCHANGED <<calls, nAdds, firstMatch>>

\* ---------------------------------------------------- the patched window.fetch
\* (init.method || 'GET').toUpperCase()
NormalizedMethod(init) == ToUpperCase(IF init.method = <<>> THEN GET ELSE init.method)

\* `${method} ${url}`
Endpoint(method, url) == method \o <<" ">> \o url

\* the wrapper recording the method as given, without toUpperCase()
TrackEndpointRaw(c, url, init) ==
  [c EXCEPT !.accessedEndpoints =
     @ \cup {Endpoint(IF init.method = <<>> THEN GET ELSE init.method, url)}]

\* the wrapper's synchronous part, before it awaits the original fetch
TrackEndpoint(c, url, init) ==
  [c EXCEPT !.accessedEndpoints = @ \cup {Endpoint(NormalizedMethod(init), url)}]

\* a call of the global fetch(url, init) by origin (the page or call() of a
\* session): through the wrapper if one is installed, else the native fetch
NewCall(origin, url, init) ==
  [origin |-> origin, url |-> url, init |-> init,
   wrapped |-> windowFetch.kind = "wrapper",
   pc |-> "fetching", viaWrapper |-> FALSE]

InvokeFetch(origin, url, init) ==
  /\ Len(calls) < MaxCalls
  /\ calls' = Append(calls, NewCall(origin, url, init))
  /\ cache' = IF windowFetch.kind = "wrapper" THEN TrackEndpoint(cache, url, init) ELSE cache

\* live traffic of the page
Fetch(url, init) ==
  /\ InvokeFetch(Page, url, init)
  /\ lastOp' = [Op("fetch") EXCEPT !.call = Len(calls) + 1]
  /\ UNCHANGED <<windowFetch, responseJson, sessions, nAdds, firstMatch>>

\* ------------------------------------------- the patched Response.prototype.json
\* what the json wrapper reads off the response of call r: __url || this.url,
\* __method || 'GET', __options || {} (this.url is taken to be the URL fetched)
Recorded(r) ==
  [url |-> r.url,
   method |-> IF r.wrapped THEN NormalizedMethod(r.init) ELSE GET,
   headers |-> IF r.wrapped THEN r.init.headers ELSE NoHeaders,
   body |-> IF r.wrapped THEN r.init.body ELSE Undefined]

CachedRequest(m) == [url |-> m.url, method |-> m.method, headers |-> m.headers, body |-> m.body]

\* cachedRequests.set(key, ...) and the merge into cache.headers
Capture(c, key, m) ==
  [c EXCEPT !.requests = MapSet(@, key, CachedRequest(m)),
            !.headers = Spread(@, m.headers)]

Invocation(key, config, match) ==
  [handler |-> config.handler, id |-> config.id, key |-> key, params |-> match.params]

\* the loop without its `if (!cachedRequests.has(key))`
RECURSIVE HandlerLoopOverwrites(_, _, _, _)
HandlerLoopOverwrites(entries, c, m, invoked) ==
  IF entries = <<>> THEN [cache |-> c, invoked |-> invoked]
  ELSE LET key == Head(entries).key
           config == Head(entries).val
           match == MatchPattern(config.matchBase, m.url, config.pattern)
       IN  IF config.verb # m.method THEN HandlerLoopOverwrites(Tail(entries), c, m, invoked)
           ELSE IF match.ok
                THEN HandlerLoopOverwrites(Tail(entries), Capture(c, key, m), m,
                                           Append(invoked, Invocation(key, config, match)))
                ELSE HandlerLoopOverwrites(Tail(entries), c, m, invoked)

\* the loop without its `if (config.verb !== method) continue`
RECURSIVE HandlerLoopAnyVerb(_, _, _, _)
HandlerLoopAnyVerb(entries, c, m, invoked) ==
  IF entries = <<>> THEN [cache |-> c, invoked |-> invoked]
  ELSE LET key == Head(entries).key
           config == Head(entries).val
           match == MatchPattern(config.matchBase, m.url, config.pattern)
       IN  IF match.ok
           THEN HandlerLoopAnyVerb(Tail(entries),
                                   IF ~MapHas(c.requests, key) THEN Capture(c, key, m) ELSE c,
                                   m, Append(invoked, Invocation(key, config, match)))
           ELSE HandlerLoopAnyVerb(Tail(entries), c, m, invoked)

\* for (const [key, config] of cache.allHandlers) ...: the cache and the
\* handler invocations after the entries still to visit (handlers are
\* observers: they do not call back into the interceptor)
RECURSIVE HandlerLoop(_, _, _, _)
HandlerLoop(entries, c, m, invoked) ==
  IF entries = <<>> THEN [cache |-> c, invoked |-> invoked]
  ELSE LET key == Head(entries).key
           config == Head(entries).val
           match == MatchPattern(config.matchBase, m.url, config.pattern)
       IN  IF config.verb # m.method THEN HandlerLoop(Tail(entries), c, m, invoked)
           ELSE IF match.ok
                THEN HandlerLoop(Tail(entries),
                                 IF ~MapHas(c.requests, key) THEN Capture(c, key, m) ELSE c,
                                 m, Append(invoked, Invocation(key, config, match)))
                ELSE HandlerLoop(Tail(entries), c, m, invoked)

\* the original fetch of call i has resolved (a wrapper has tagged the response
\* with __url, __method and __options) and response.json() is called: the
\* function installed at that moment runs and awaits the original decode.
\* The resolution of the fetch changes nothing any other step reads, so it is
\* taken together with the call of json() that follows it.
JsonInvoke(i) ==
  /\ i \in 1..Len(calls)
  /\ calls[i].pc = "fetching"
  /\ calls' = [calls EXCEPT ![i].pc = "decoding",
                            ![i].viaWrapper = responseJson.kind = "wrapper"]
  /\ lastOp' = [Op("jsonInvoke") EXCEPT !.call = i]
  /\ UNCHANGED <<windowFetch, responseJson, cache, sessions, nAdds, firstMatch>>

\* the original decode of call i resolves; a wrapper then runs the handlers
JsonComplete(i) ==
  /\ i \in 1..Len(calls)
  /\ calls[i].pc = "decoding"
  /\ calls' = [calls EXCEPT ![i] = Done]
  /\ LET r == IF calls[i].viaWrapper
              THEN HandlerLoop(cache.allHandlers, cache, Recorded(calls[i]), <<>>)
              ELSE [cache |-> cache, invoked |-> <<>>]
     IN  /\ cache' = r.cache
         /\ lastOp' = [Op("jsonComplete") EXCEPT !.call = i, !.invoked = r.invoked,
                                                  !.meta = Recorded(calls[i]),
                                                  !.viaWrapper = calls[i].viaWrapper]
         /\ firstMatch' =
              [k \in AllFullKeys |->
                 IF firstMatch[k] = NoMeta /\ \E j \in 1..Len(r.invoked) : r.invoked[j].key = k
                 THEN Recorded(calls[i]) ELSE firstMatch[k]]
  /\ UNCHANGED <<windowFetch, responseJson, sessions, nAdds>>

\* ------------------------------------------------------------------- call
Truthy(body) == body # Undefined /\ body # ""

\* the merge with the cached headers spread last: defaults < options < cached
MergedHeadersCachedLast(sess, c, fullKey, options) ==
  Spread(Spread(sess.defaultHeaders, options.headers),
         IF MapHas(c.requests, fullKey) THEN MapGet(c.requests, fullKey).headers
         ELSE NoHeaders)

\* defaults < cached < options
MergedHeaders(sess, c, fullKey, options) ==
  Spread(Spread(sess.defaultHeaders,
                IF MapHas(c.requests, fullKey) THEN MapGet(c.requests, fullKey).headers
                ELSE NoHeaders),
         options.headers)

\* handler.requiredHeaders.filter(h => !headers[h])
Missing(requiredHeaders, headers) ==
  SelectSeq(requiredHeaders, LAMBDA h : h \notin DOMAIN headers \/ headers[h] = "")

\* the error call throws, or "ok"
CallOutcome(sess, c, key, options) ==
  LET fullKey == FullKey(key)
  IN  IF ~MapHas(sess.handlers, fullKey) THEN "UnknownHandler"
      ELSE LET handler == MapGet(sess.handlers, fullKey)
           IN  IF handler.pattern.type # "string" THEN "UnsupportedPattern"
               ELSE IF Len(handler.requiredHeaders) > 0
                       /\ Len(Missing(handler.requiredHeaders,
                                      MergedHeaders(sess, c, fullKey, options))) > 0
                    THEN "MissingRequiredHeaders"
                    ELSE "ok"

\* call that issues the request before it checks the required headers
IssuesFetchBeforeHeaderCheck(sess, c, key, options) ==
  CallOutcome(sess, c, key, options) \in {"ok", "MissingRequiredHeaders"}

\* whether call gets as far as fetch(url, fetchOptions)
IssuesFetch(sess, c, key, options) == CallOutcome(sess, c, key, options) = "ok"

\* fetchOptions (mode and credentials are constants and left out)
FetchOptions(sess, c, key, options) ==
  LET fullKey == FullKey(key)
      cachedBody == IF MapHas(c.requests, fullKey) THEN MapGet(c.requests, fullKey).body
                    ELSE Undefined
  IN  [method |-> ParseKey(key).verb,
       headers |-> MergedHeaders(sess, c, fullKey, options),
       body |-> IF Truthy(options.body) THEN options.body
                ELSE IF Truthy(cachedBody) THEN cachedBody ELSE Undefined]

Call(s, key, params, options) ==
  /\ sessions[s].created
  /\ LET sess == sessions[s]
         out == CallOutcome(sess, cache, key, options)
     IN  IF IssuesFetch(sess, cache, key, options)
         THEN /\ InvokeFetch(Replay(s, key, params, MapGet(sess.handlers, FullKey(key)).id),
                   BuildUrl(sess.normalizedBasePath,
                            MapGet(sess.handlers, FullKey(key)).pattern.text, params),
                   FetchOptions(sess, cache, key, options))
              /\ lastOp' = [OpCall(s, key, params, options) EXCEPT
                              !.call = Len(calls) + 1, !.out = out]
         ELSE /\ out # "ok"
              /\ lastOp' = [OpCall(s, key, params, options) EXCEPT !.out = out]
              /\ UNCHANGED <<cache, calls>>
  /\ UNCHANGED <<windowFetch, responseJson, sessions, nAdds, firstMatch>>

\* ------------------------------------------------------------ useFetchTracker
Clear ==
  /\ cache' = [cache EXCEPT !.accessedEndpoints = {}]
  /\ lastOp' = Op("clear")
  /\ UNCHANGED <<windowFetch, responseJson, sessions, calls, nAdds, firstMatch>>

\* -------------------------------------------------------------- behaviours
\* the responses of live traffic and their capture: two keys of one verb,
\* requests with and without headers
NextCapture ==
  \/ \E s \in SessionIds : UseFetchInterceptor(s)
  \/ \E s \in SessionIds, key \in {KeyX, KeyY} : Add(s, key, RegTokens)
  \/ \E s \in SessionIds, key \in {KeyX, KeyY} : Remove(s, key)
  \/ \E s \in SessionIds : Restore(s)
  \/ \E init \in {InitPlain, InitHeaders} : Fetch(UrlUser, init)
  \/ \E i \in 1..MaxCalls : JsonInvoke(i)
  \/ \E i \in 1..MaxCalls : JsonComplete(i)

SpecCapture == Init /\ [][NextCapture]_vars

\* the dispatch of a response to the handlers of every session: two keys of one
\* verb, both kinds of pattern, requests of two methods under a base path
NextDispatch ==
  \/ \E s \in SessionIds : UseFetchInterceptor(s)
  \/ \E s \in SessionIds, key \in {KeyX, KeyY}, reg \in Registrations : Add(s, key, reg)
  \/ \E s \in SessionIds, key \in {KeyX, KeyY} : Remove(s, key)
  \/ \E s \in SessionIds : Restore(s)
  \/ \E init \in {InitPlain, InitPost} : Fetch(UrlBased, init)
  \/ \E i \in 1..MaxCalls : JsonInvoke(i)
  \/ \E i \in 1..MaxCalls : JsonComplete(i)

SpecDispatch == Init /\ [][NextDispatch]_vars

\* the endpoint set under live traffic and replays: requests of two methods,
\* replays that pass their preconditions, and clear()
NextEndpoints ==
  \/ \E s \in SessionIds : UseFetchInterceptor(s)
  \/ \E s \in SessionIds : Add(s, KeyPostX, RegTokens)
  \/ \E s \in SessionIds : Remove(s, KeyPostX)
  \/ \E s \in SessionIds : Restore(s)
  \/ \E s \in SessionIds : Call(s, KeyPostX, ParamsId, OptionsHeaders)
  \/ \E init \in {InitPlain, InitPost} : Fetch(UrlUser, init)
  \/ \E i \in 1..MaxCalls : JsonInvoke(i)
  \/ \E i \in 1..MaxCalls : JsonComplete(i)
  \/ Clear

SpecEndpoints == Init /\ [][NextEndpoints]_vars

\* replays beside live traffic: one key, both kinds of pattern, replays with
\* and without params that take their headers from the defaults and the cache
Next ==
  \/ \E s \in SessionIds : UseFetchInterceptor(s)
  \/ \E s \in SessionIds, reg \in Registrations : Add(s, KeyPostX, reg)
  \/ \E s \in SessionIds : Remove(s, KeyPostX)
  \/ \E s \in SessionIds : Restore(s)
  \/ \E s \in SessionIds, params \in ParamBags : Call(s, KeyPostX, params, OptionsNone)
  \/ Fetch(UrlUser, InitPost)
  \/ \E i \in 1..MaxCalls : JsonInvoke(i)
  \/ \E i \in 1..MaxCalls : JsonComplete(i)

Spec == Init /\ [][Next]_vars

\* the headers of replays: one key with a tokenized pattern, live requests
\* that carry headers, replays with and without call-time headers
NextReplay ==
  \/ \E s \in SessionIds : UseFetchInterceptor(s)
  \/ \E s \in SessionIds : Add(s, KeyX, RegTokens)
  \/ \E s \in SessionIds : Remove(s, KeyX)
  \/ \E s \in SessionIds : Restore(s)
  \/ \E s \in SessionIds, options \in HeaderOptions : Call(s, KeyX, ParamsId, options)
  \/ Fetch(UrlUser, InitHeaders)
  \/ \E i \in 1..MaxCalls : JsonInvoke(i)
  \/ \E i \in 1..MaxCalls : JsonComplete(i)

SpecReplay == Init /\ [][NextReplay]_vars

\* the URLs replays are issued to: one key, patterns with one token, a
\* repeated token and a query, params with and without an entry beside the
\* token's; the responses are left undecoded
NextUrl ==
  \/ \E s \in SessionIds : UseFetchInterceptor(s)
  \/ \E s \in SessionIds, reg \in UrlRegistrations : Add(s, KeyX, reg)
  \/ \E s \in SessionIds : Remove(s, KeyX)
  \/ \E s \in SessionIds : Restore(s)
  \/ \E s \in SessionIds, params \in UrlParamBags : Call(s, KeyX, params, OptionsHeaders)

SpecUrl == Init /\ [][NextUrl]_vars

\* replays and the decode of their responses: one key, patterns with one token
\* and with a repeated token, params that supply the token
NextRoundTrip ==
  \/ \E s \in SessionIds : UseFetchInterceptor(s)
  \/ \E s \in SessionIds, reg \in {RegTokens, RegTwice} : Add(s, KeyX, reg)
  \/ \E s \in SessionIds : Remove(s, KeyX)
  \/ \E s \in SessionIds : Restore(s)
  \/ \E s \in SessionIds : Call(s, KeyX, ParamsId, OptionsHeaders)
  \/ \E i \in 1..MaxCalls : JsonInvoke(i)
  \/ \E i \in 1..MaxCalls : JsonComplete(i)

SpecRoundTrip == Init /\ [][NextRoundTrip]_vars

\* the matcher on the responses of live traffic: one key, tokenized and plain
\* patterns of both sessions, URLs with and without base path and query
NextMatch ==
  \/ \E s \in SessionIds : UseFetchInterceptor(s)
  \/ \E s \in SessionIds, reg \in MatchRegistrations : Add(s, KeyX, reg)
  \/ \E url \in MatchUrls : Fetch(url, InitPlain)
  \/ \E i \in 1..MaxCalls : JsonInvoke(i)
  \/ \E i \in 1..MaxCalls : JsonComplete(i)

SpecMatch == Init /\ [][NextMatch]_vars

\* the registry operations alone, on every key and registration
NextRegistry ==
  \/ \E s \in SessionIds : UseFetchInterceptor(s)
  \/ \E s \in SessionIds, key \in RawKeys, reg \in Registrations : Add(s, key, reg)
  \/ \E s \in SessionIds, key \in RawKeys : Remove(s, key)
  \/ \E s \in SessionIds : Restore(s)

SpecRegistry == Init /\ [][NextRegistry]_vars

\* ------------------------------------------------------------ patch state
Patched ==
  /\ cache.isPatched
  /\ windowFetch.kind = "wrapper"
  /\ responseJson.kind = "wrapper"

Unpatched ==
  /\ ~cache.isPatched
  /\ windowFetch = NativeFetch
  /\ responseJson = NativeJson

\* one wrapper layer, directly over the true originals
SingleLayer ==
  /\ Patched
  /\ cache.originalFetch = NativeFetch
  /\ cache.originalJson = NativeJson
  /\ responseJson.orig = NativeJson

PatchedOnce == Unpatched \/ SingleLayer

\* a step that is an add made while PATCHED keeps the saved originals and the
\* installed wrappers
AddKeepsPatch ==
  (lastOp'.op = "add" /\ cache.isPatched) =>
     /\ windowFetch' = windowFetch
     /\ responseJson' = responseJson
     /\ cache'.originalFetch = cache.originalFetch
     /\ cache'.originalJson = cache.originalJson

\* C1: in every state the active primitives are the true originals
\* (UNPATCHED) or one wrapper layer directly over the true originals
\* (PATCHED); an add while PATCHED changes neither the saved originals nor the
\* installed wrappers; after a full unpatch the active primitives are the
\* originals again.
C1_PatchedExactlyOnce == []PatchedOnce /\ [][AddKeepsPatch]_vars

\* an add made while PATCHED has acted: both adds are still registered
C1_Witness ==
  /\ lastOp.op = "add"
  /\ Len(cache.allHandlers) = 2
  /\ \E s \in SessionIds : Len(sessions[s].handlers) = 2
  /\ SingleLayer

\* C2: while some session holds a handler in its local registry, the
\* primitives are patched.
C2_PatchedWhileAnyLocalHandler ==
  (\E s \in SessionIds : Len(sessions[s].handlers) > 0) => Patched

\* C3 as stated: a remove or restore that leaves the aggregate registry empty
\* leaves the system UNPATCHED.
C3_RemovalReleasesPatch ==
  (lastOp.op \in {"remove", "restore"} /\ Len(cache.allHandlers) = 0) => Unpatched

\* C3: a restore that leaves the aggregate registry empty leaves the system
\* UNPATCHED, the saved originals active again.
C3_RestoreReleasesPatch ==
  (lastOp.op = "restore" /\ Len(cache.allHandlers) = 0) =>
     /\ Unpatched
     /\ windowFetch = cache.originalFetch \/ cache.originalFetch = Null
     /\ responseJson = cache.originalJson \/ cache.originalJson = Null

\* a restore has emptied the aggregate registry of a process that was patched
C3_Witness ==
  /\ lastOp.op = "restore"
  /\ Len(cache.allHandlers) = 0
  /\ cache.originalFetch = NativeFetch
  /\ nAdds > 0
  /\ Unpatched

\* C4: while the aggregate registry holds a handler, the primitives are
\* patched.
C4_PatchedWhileAggregateNonEmpty == Len(cache.allHandlers) > 0 => Patched

\* a restore has run and another session's handler is left in the aggregate
\* registry
C4_Witness ==
  /\ lastOp.op = "restore"
  /\ Len(cache.allHandlers) > 0
  /\ Patched

LocalKeys == UNION {MapKeys(sessions[s].handlers) : s \in SessionIds}

\* C5: the keys of the aggregate registry are the union of the keys of the
\* sessions' local registries, and each aggregate entry is the config that
\* some session holds under that key.
C5_AggregateIsUnion ==
  /\ MapKeys(cache.allHandlers) = LocalKeys
  /\ \A k \in MapKeys(cache.allHandlers) :
       \E s \in SessionIds :
         /\ MapHas(sessions[s].handlers, k)
         /\ MapGet(sessions[s].handlers, k) = MapGet(cache.allHandlers, k)

\* ---------------------------------------------------------------- capture
\* the cache holds, for each key, what the first matching response since the
\* key's last remove recorded
CachedIsFirstMatch ==
  \A k \in AllFullKeys :
     /\ MapHas(cache.requests, k) <=> firstMatch[k] # NoMeta
     /\ MapHas(cache.requests, k) => MapGet(cache.requests, k) = CachedRequest(firstMatch[k])

\* the keys whose handlers the decode that ended in this step invoked
InvokedKeys(op) == {op.invoked[j].key : j \in 1..Len(op.invoked)}

\* C6 as stated: a decode that matches a key that already has a CachedRequest
\* leaves that CachedRequest and the aggregate header bag unchanged.
C6_LaterDecodeChangesNothing ==
  [][\A k \in AllFullKeys :
       (lastOp'.op = "jsonComplete" /\ k \in InvokedKeys(lastOp') /\ MapHas(cache.requests, k)) =>
          /\ MapGet(cache'.requests, k) = MapGet(cache.requests, k)
          /\ cache'.headers = cache.headers]_vars

\* a decode leaves every CachedRequest there is unchanged, and changes the
\* header bag only if it captures a key that had no CachedRequest
LaterDecodeKeepsCached ==
  lastOp'.op = "jsonComplete" =>
     /\ \A k \in AllFullKeys :
          MapHas(cache.requests, k) =>
             /\ MapHas(cache'.requests, k)
             /\ MapGet(cache'.requests, k) = MapGet(cache.requests, k)
     /\ cache'.headers # cache.headers =>
          \E k \in InvokedKeys(lastOp') : ~MapHas(cache.requests, k)

\* C6: for every key the CachedRequest is what the first matching response
\* whose decode completed since the key's last remove recorded; a later
\* matching decode leaves that CachedRequest unchanged, and leaves the header
\* bag unchanged unless the same decode captures another key for the first time.
C6_CaptureOnce == []CachedIsFirstMatch /\ [][LaterDecodeKeepsCached]_vars

\* a decode has just matched a key whose CachedRequest came from another
\* response, and left it as it was
C6_Witness ==
  /\ lastOp.op = "jsonComplete"
  /\ \E k \in InvokedKeys(lastOp) :
       /\ MapHas(cache.requests, k)
       /\ MapGet(cache.requests, k) # CachedRequest(lastOp.meta)

\* ------------------------------------------------------- remove and re-add
EntriesUnder(m, k) == Cardinality({i \in 1..Len(m) : m[i].key = k})

\* after remove(key) the full key is in neither registry nor in the cache
RemoveDeletes ==
  lastOp.op = "remove" =>
     /\ ~MapHas(sessions[lastOp.s].handlers, FullKey(lastOp.key))
     /\ ~MapHas(cache.allHandlers, FullKey(lastOp.key))
     /\ ~MapHas(cache.requests, FullKey(lastOp.key))

\* after add(key, ...) one handler is under the full key: the one just built
AddLeavesLaterHandler ==
  lastOp.op = "add" =>
     /\ EntriesUnder(sessions[lastOp.s].handlers, FullKey(lastOp.key)) = 1
     /\ EntriesUnder(cache.allHandlers, FullKey(lastOp.key)) = 1
     /\ MapGet(sessions[lastOp.s].handlers, FullKey(lastOp.key)).id = nAdds
     /\ MapGet(cache.allHandlers, FullKey(lastOp.key)).id = nAdds

\* add creates no CachedRequest
AddKeepsRequests == lastOp'.op = "add" => cache'.requests = cache.requests

\* a matching response to a key without CachedRequest is captured
CapturedAfresh ==
  lastOp'.op = "jsonComplete" =>
     \A k \in InvokedKeys(lastOp') :
        ~MapHas(cache.requests, k) =>
           /\ MapHas(cache'.requests, k)
           /\ MapGet(cache'.requests, k) = CachedRequest(lastOp'.meta)

\* C7: remove(key) deletes the full key from the session's local registry, the
\* aggregate registry and the request cache; add leaves one handler under the
\* full key, the one just registered, and creates no CachedRequest, so that
\* the next matching response to a removed and re-added key is captured.
C7_RemoveThenAdd ==
  [](RemoveDeletes /\ AddLeavesLaterHandler) /\ [][AddKeepsRequests /\ CapturedAfresh]_vars

\* a remove has just purged the CachedRequest of a registered key
C7_Witness ==
  /\ lastOp.op = "remove"
  /\ lastOp.out = "purged"
  /\ nAdds > 0
  /\ cache.requests = <<>>

\* --------------------------------------------------------------- dispatch
\* how often the decode that ended in this step invoked the handler of entry e
Invocations(op, e) ==
  Cardinality({j \in 1..Len(op.invoked) :
                 /\ op.invoked[j].key = e.key
                 /\ op.invoked[j].id = e.val.id
                 /\ op.invoked[j].handler = e.val.handler
                 /\ op.invoked[j].params =
                      MatchPattern(e.val.matchBase, op.meta.url, e.val.pattern).params})

Matches(e, m) ==
  /\ e.val.verb = m.method
  /\ MatchPattern(e.val.matchBase, m.url, e.val.pattern).ok

\* C8: a decode made through the wrapper invokes, once each, the handlers of
\* the aggregate registry whose verb is the response's recorded method and
\* whose pattern matches its URL, and no other handler.
C8_CrossSessionDispatch ==
  (lastOp.op = "jsonComplete" /\ lastOp.viaWrapper) =>
     /\ \A i \in 1..Len(cache.allHandlers) :
          Invocations(lastOp, cache.allHandlers[i]) =
             IF Matches(cache.allHandlers[i], lastOp.meta) THEN 1 ELSE 0
     /\ Len(lastOp.invoked) =
          Cardinality({i \in 1..Len(cache.allHandlers) :
                         Matches(cache.allHandlers[i], lastOp.meta)})

\* one decode has invoked two handlers registered by different sessions, and
\* passed by a handler of another verb or pattern
C8_Witness ==
  /\ lastOp.op = "jsonComplete"
  /\ lastOp.viaWrapper
  /\ Len(lastOp.invoked) = 2
  /\ Len(cache.allHandlers) = 2
  /\ cache.allHandlers[1].val.matchBase # cache.allHandlers[2].val.matchBase

\* ------------------------------------------------------ endpoint tracking
\* a step that calls fetch while PATCHED puts "METHOD URL" into the set
FetchTracksEndpoint ==
  (lastOp'.op \in {"fetch", "call"} /\ Len(calls') = Len(calls) + 1 /\ Patched) =>
     LET new == calls'[Len(calls')]
         method == IF new.init.method = <<>> THEN GET ELSE ToUpperCase(new.init.method)
     IN  method \o <<" ">> \o new.url \in cache'.accessedEndpoints

\* C9: every call of fetch made while PATCHED, by the page or by call(), adds
\* "METHOD URL" to the endpoint set, the method defaulting to GET and
\* uppercased, whether or not a handler matches.
C9_EveryCallTracked == [][FetchTracksEndpoint]_vars

\* a lower-case POST has been fetched while PATCHED with no handler registered
C9_Witness ==
  /\ lastOp.op = "fetch"
  /\ Patched
  /\ cache.allHandlers = <<>>
  /\ calls[lastOp.call].init.method = <<"p", "o", "s", "t">>
  /\ Endpoint(POST, calls[lastOp.call].url) \in cache.accessedEndpoints

\* ------------------------------------------------------------- call errors
CallErrors == {"UnknownHandler", "UnsupportedPattern", "MissingRequiredHeaders"}

\* a call that throws changes nothing and issues no request
FailedCallChangesNothing ==
  (lastOp'.op = "call" /\ lastOp'.out \in CallErrors) =>
     UNCHANGED <<windowFetch, responseJson, cache, sessions, calls>>

\* call on a key the session does not hold throws UnknownHandler, call on a
\* RegExp handler throws UnsupportedPattern, and only a call that throws
\* nothing issues a request
CallErrorKinds ==
  lastOp.op = "call" =>
     LET handlers == sessions[lastOp.s].handlers
         fullKey == FullKey(lastOp.key)
     IN  /\ ~MapHas(handlers, fullKey) <=> lastOp.out = "UnknownHandler"
         /\ (MapHas(handlers, fullKey) /\ MapGet(handlers, fullKey).pattern.type = "regexp")
              <=> lastOp.out = "UnsupportedPattern"
         /\ lastOp.out \in CallErrors \cup {"ok"}
         /\ lastOp.out = "ok" <=> lastOp.call > 0

\* C10: a call that fails with UnknownHandler, UnsupportedPattern or
\* MissingRequiredHeaders has issued no network call and left the endpoint set,
\* the request cache, the header bag and the registries unchanged; a key the
\* session does not hold gives UnknownHandler and a RegExp pattern gives
\* UnsupportedPattern, whatever the params.
C10_FailedCallNoIO == []CallErrorKinds /\ [][FailedCallChangesNothing]_vars

\* a call has just been refused for a missing required header while PATCHED
C10_Witness ==
  /\ lastOp.op = "call"
  /\ lastOp.out = "MissingRequiredHeaders"
  /\ Patched

\* ------------------------------------------------------- headers of a replay
\* the headers of the key's CachedRequest, none if nothing has been captured
CachedHeaders(fullKey) ==
  IF MapHas(cache.requests, fullKey) THEN MapGet(cache.requests, fullKey).headers
  ELSE NoHeaders

\* C11: the headers of the request a call issues are the headers named by the
\* call-time options, the key's CachedRequest or the session's default headers,
\* and each takes the call-time value if there is one, else the cached value if
\* there is one, else the session's default value.
C11_HeaderPrecedence ==
  (lastOp.op = "call" /\ lastOp.out = "ok") =>
     LET issued == calls[lastOp.call].init.headers
         supplied == lastOp.options.headers
         cached == CachedHeaders(FullKey(lastOp.key))
         defaults == sessions[lastOp.s].defaultHeaders
     IN  /\ DOMAIN issued = DOMAIN supplied \cup DOMAIN cached \cup DOMAIN defaults
         /\ \A h \in DOMAIN issued :
               issued[h] = IF h \in DOMAIN supplied THEN supplied[h]
                           ELSE IF h \in DOMAIN cached THEN cached[h]
                           ELSE defaults[h]

\* defaults {A:1}, cached {A:2,B:2} and call-time {B:3} have given {A:2,B:3}
C11_Witness ==
  /\ lastOp.op = "call"
  /\ lastOp.out = "ok"
  /\ sessions[lastOp.s].defaultHeaders = [h \in {"A"} |-> "1"]
  /\ CachedHeaders(FullKey(lastOp.key)) = [h \in {"A", "B"} |-> "2"]
  /\ lastOp.options = OptionsB
  /\ calls[lastOp.call].init.headers = [h \in {"A", "B"} |-> IF h = "A" THEN "2" ELSE "3"]

\* the names of the merged headers of the call that produced this state
MergedNames ==
  DOMAIN lastOp.options.headers \cup DOMAIN CachedHeaders(FullKey(lastOp.key))
    \cup DOMAIN sessions[lastOp.s].defaultHeaders

\* C12: a call on a registered handler with a string pattern throws
\* MissingRequiredHeaders exactly when a header of the handler's required list
\* is absent from the merged headers; a required header that is present,
\* whatever its value, does not block the replay.
C12_BlockedOnlyByAbsentHeader ==
  (/\ lastOp.op = "call"
   /\ MapHas(sessions[lastOp.s].handlers, FullKey(lastOp.key))
   /\ MapGet(sessions[lastOp.s].handlers, FullKey(lastOp.key)).pattern.type = "string") =>
     LET required == MapGet(sessions[lastOp.s].handlers, FullKey(lastOp.key)).requiredHeaders
     IN  lastOp.out = "MissingRequiredHeaders" <=>
            \E i \in 1..Len(required) : required[i] \notin MergedNames

\* ----------------------------------------------------------- URL of a replay
\* the names of the tokens :name that occur in text
TokenNames(text) ==
  {SubSeq(text, i + 1, i + WordRun(text, i + 1)) :
     i \in {j \in 1..Len(text) : text[j] = ":" /\ WordRun(text, j + 1) > 0}}

\* text from index i on, every token whose name is a key of params replaced by
\* that param's value and every other token left as it is
RECURSIVE EveryTokenReplaced(_, _, _)
EveryTokenReplaced(text, i, params) ==
  IF i > Len(text) THEN <<>>
  ELSE LET n == IF text[i] = ":" THEN WordRun(text, i + 1) ELSE 0
       IN  IF n > 0 /\ MapHas(params, SubSeq(text, i + 1, i + n))
           THEN MapGet(params, SubSeq(text, i + 1, i + n))
                  \o EveryTokenReplaced(text, i + 1 + n, params)
           ELSE <<text[i]>> \o EveryTokenReplaced(text, i + 1, params)

\* the URL C13 describes
ReplayUrl(base, pattern, params) ==
  LET text == base \o pattern
      replaced == EveryTokenReplaced(text, 1, params)
      rest == SelectSeq(params, LAMBDA e : e.key \notin TokenNames(text))
  IN  IF rest = <<>> THEN replaced
      ELSE replaced \o (IF \E i \in 1..Len(replaced) : replaced[i] = "?"
                        THEN <<"&">> ELSE <<"?">>)
                    \o QueryString(rest)

\* C13: the URL a call issues is base path + pattern with every occurrence of
\* a token whose name is a key of the params replaced by the param's value,
\* every other token left as it is, and the params that replaced no token
\* appended as an encoded query string after '?', or '&' if the URL has a '?'.
C13_ReplayUrl ==
  (lastOp.op = "call" /\ lastOp.out = "ok") =>
     calls[lastOp.call].url =
        ReplayUrl(sessions[lastOp.s].normalizedBasePath,
                  MapGet(sessions[lastOp.s].handlers, FullKey(lastOp.key)).pattern.text,
                  lastOp.params)

\* ------------------------------------------------------------ the matcher
\* the text before the first '?'
BeforeQuery(text) ==
  IF \E i \in 1..Len(text) : text[i] = "?"
  THEN SubSeq(text, 1, (CHOOSE i \in 1..Len(text) :
                          text[i] = "?" /\ \A j \in 1..(i - 1) : text[j] # "?") - 1)
  ELSE text

\* the URL path a handler's matcher works on: without base path and query
StrippedPath(base, url) ==
  BeforeQuery(IF Len(base) <= Len(url) /\ SubSeq(url, 1, Len(base)) = base
              THEN SubSeq(url, Len(base) + 1, Len(url)) ELSE url)

\* the '/'-separated segments of text
Segments(text) ==
  LET cuts == <<0>> \o SelectSeq([i \in 1..Len(text) |-> i], LAMBDA i : text[i] = "/")
                    \o <<Len(text) + 1>>
  IN  [k \in 1..(Len(cuts) - 1) |-> SubSeq(text, cuts[k] + 1, cuts[k + 1] - 1)]

IsToken(segment) == Len(segment) > 0 /\ segment[1] = ":"

TokenName(segment) == SubSeq(segment, 2, Len(segment))

\* a string pattern with token segments
HasTokenSegments(pattern) ==
  /\ pattern.type = "string"
  /\ \E i \in 1..Len(Segments(BeforeQuery(pattern.text))) :
        IsToken(Segments(BeforeQuery(pattern.text))[i])

\* the decode that produced this state ran the handlers of the registry
Decoded == lastOp.op = "jsonComplete" /\ lastOp.viaWrapper

\* the aggregate entry whose handler invocation inv is
EntryOf(inv) == CHOOSE i \in 1..Len(cache.allHandlers) : cache.allHandlers[i].key = inv.key

\* C14 as stated: a tokenized pattern matches only a URL path with as many
\* segments as the pattern whose segments equal the pattern's literal
\* segments, and the params map the name of each token segment to the text of
\* the URL segment at its place.
C14_EveryTokenSegmentMapped ==
  Decoded =>
    \A j \in 1..Len(lastOp.invoked) :
       LET config == cache.allHandlers[EntryOf(lastOp.invoked[j])].val
           ps == Segments(BeforeQuery(config.pattern.text))
           us == Segments(StrippedPath(config.matchBase, lastOp.meta.url))
           params == lastOp.invoked[j].params
       IN  HasTokenSegments(config.pattern) =>
              /\ Len(ps) = Len(us)
              /\ \A i \in 1..Len(ps) :
                    IF IsToken(ps[i])
                    THEN /\ MapHas(params, TokenName(ps[i]))
                         /\ MapGet(params, TokenName(ps[i])) = us[i]
                    ELSE ps[i] = us[i]

\* C14: a tokenized pattern matches only a URL path with as many segments as
\* the pattern whose segments equal the pattern's literal segments, and the
\* params map each token name to the text of the URL segment at the place of
\* the last token segment that carries the name, whatever that text is.
C14_TokenizedMatching ==
  Decoded =>
    \A j \in 1..Len(lastOp.invoked) :
       LET config == cache.allHandlers[EntryOf(lastOp.invoked[j])].val
           ps == Segments(BeforeQuery(config.pattern.text))
           us == Segments(StrippedPath(config.matchBase, lastOp.meta.url))
           params == lastOp.invoked[j].params
       IN  HasTokenSegments(config.pattern) =>
              /\ Len(ps) = Len(us)
              /\ MapKeys(params) = {TokenName(ps[i]) : i \in {k \in 1..Len(ps) : IsToken(ps[k])}}
              /\ \A i \in 1..Len(ps) :
                    IF IsToken(ps[i])
                    THEN (\A k \in (i + 1)..Len(ps) : ps[k] # ps[i]) =>
                            MapGet(params, TokenName(ps[i])) = us[i]
                    ELSE ps[i] = us[i]

\* a tokenized pattern has matched a URL whose token segment is empty, under
\* the base path of session 2 or none
C14_Witness ==
  /\ Decoded
  /\ Len(lastOp.invoked) = 1
  /\ lastOp.invoked[1].handler = "h1"
  /\ lastOp.invoked[1].params = <<[key |-> <<"i", "d">>, val |-> <<>>]>>

IsSubstring(p, s) == \E i \in 1..(Len(s) - Len(p) + 1) : SubSeq(s, i, i + Len(p) - 1) = p

\* whether the decode that produced this state invoked the handler of entry e
Invoked(e) ==
  \E j \in 1..Len(lastOp.invoked) :
     lastOp.invoked[j].key = e.key /\ lastOp.invoked[j].id = e.val.id

\* the params the handler of entry e was invoked with are empty
InvokedWithoutParams(e) ==
  \A j \in 1..Len(lastOp.invoked) :
     (lastOp.invoked[j].key = e.key /\ lastOp.invoked[j].id = e.val.id) =>
        lastOp.invoked[j].params = <<>>

\* C15 as stated: a string pattern without token segments matches, with empty
\* params, exactly the URLs whose query-stripped path has the pattern text as
\* a substring.
C15_PatternTextIsSubstring ==
  Decoded =>
    \A i \in 1..Len(cache.allHandlers) :
       LET e == cache.allHandlers[i]
       IN  (/\ e.val.verb = lastOp.meta.method
            /\ e.val.pattern.type = "string"
            /\ ~HasTokenSegments(e.val.pattern)) =>
              /\ Invoked(e) <=> IsSubstring(e.val.pattern.text, BeforeQuery(lastOp.meta.url))
              /\ InvokedWithoutParams(e)

\* C15: a string pattern whose text before its first '?' holds no ':'
\* matches, with empty params, exactly the URLs whose path, without the
\* session's base path and without the query, has that text as a substring.
C15_SubstringMatching ==
  Decoded =>
    \A i \in 1..Len(cache.allHandlers) :
       LET e == cache.allHandlers[i]
           patternPath == BeforeQuery(e.val.pattern.text)
       IN  (/\ e.val.verb = lastOp.meta.method
            /\ e.val.pattern.type = "string"
            /\ \A k \in 1..Len(patternPath) : patternPath[k] # ":") =>
              /\ Invoked(e) <=>
                    IsSubstring(patternPath, StrippedPath(e.val.matchBase, lastOp.meta.url))
              /\ InvokedWithoutParams(e)

\* a plain pattern has matched in the middle of a URL path, and a plain
\* pattern has been passed by
C15_Witness ==
  /\ Decoded
  /\ lastOp.meta.url = UrlBased
  /\ Len(cache.allHandlers) = 1
  /\ cache.allHandlers[1].val.pattern = RegPlain.pattern
  /\ cache.allHandlers[1].val.matchBase = <<>>
  /\ Invoked(cache.allHandlers[1])

\* ---------------------------------------------------------- decode ordering
\* the decode of call i has been invoked through the wrapper and not completed
InFlight(i) == calls[i].pc = "decoding" /\ calls[i].viaWrapper

\* C16: of two decodes in flight at the same time, the one invoked first
\* completes, and has its handlers invoked, first: a decode invoked while
\* another is in flight does not complete before that one.
C16_DecodesCompleteInOrder ==
  [][(/\ lastOp.op = "jsonInvoke"
      /\ InFlight(lastOp.call)
      /\ \E j \in 1..Len(calls) : j # lastOp.call /\ InFlight(j)) =>
        ~(/\ lastOp'.op = "jsonComplete"
          /\ lastOp'.call = lastOp.call
          /\ Len(lastOp'.invoked) > 0)]_vars

\* ------------------------------------------------------------ cache entries
\* C17: every key that has a CachedRequest is a key of the aggregate handler
\* registry.
C17_NoOrphanCachedRequest ==
  \A k \in MapKeys(cache.requests) : MapHas(cache.allHandlers, k)

\* ------------------------------------------------------------ verb fidelity
\* the method the request of call c was issued with
IssuedMethod(c) == IF c.init.method = <<>> THEN GET ELSE ToUpperCase(c.init.method)

\* C18: a decode invokes the handlers of a verb, and captures a CachedRequest
\* with a method, only if its request was issued with that verb or method,
\* also when the request was fetched while no patch was installed.
C18_VerbFidelity ==
  [][lastOp'.op = "jsonComplete" =>
       LET issued == IssuedMethod(calls[lastOp'.call])
       IN  /\ \A j \in 1..Len(lastOp'.invoked) :
                 MapGet(cache.allHandlers, lastOp'.invoked[j].key).verb = issued
           /\ \A k \in MapKeys(cache'.requests) \ MapKeys(cache.requests) :
                 MapGet(cache'.requests, k).method = issued]_vars

\* ------------------------------------------------- callbacks after removal
\* the handler configs (by the add that built them) held by a registry
ConfigIds(registry) == {registry[i].val.id : i \in 1..Len(registry)}

\* the configs a registry holds under the keys
ConfigIdsUnder(registry, keys) ==
  {registry[i].val.id : i \in {j \in 1..Len(registry) : registry[j].key \in keys}}

\* a decode invokes only handlers the aggregate registry holds as it completes
InvokedAreRegistered ==
  lastOp.op = "jsonComplete" =>
     \A j \in 1..Len(lastOp.invoked) : lastOp.invoked[j].id \in ConfigIds(cache.allHandlers)

\* remove(key) and restore() leave none of the handlers they removed, from the
\* session's registry or from the aggregate one, in the aggregate registry
RemovalUnregisters ==
  /\ lastOp'.op = "remove" =>
        (ConfigIdsUnder(sessions[lastOp'.s].handlers, {FullKey(lastOp'.key)})
           \cup ConfigIdsUnder(cache.allHandlers, {FullKey(lastOp'.key)}))
          \cap ConfigIds(cache'.allHandlers) = {}
  /\ lastOp'.op = "restore" =>
        (ConfigIds(sessions[lastOp'.s].handlers)
           \cup ConfigIdsUnder(cache.allHandlers, MapKeys(sessions[lastOp'.s].handlers)))
          \cap ConfigIds(cache'.allHandlers) = {}

\* a handler that has left the aggregate registry does not come back: only an
\* add puts a handler there, the one it builds
UnregisteredStaysOut ==
  /\ \A id \in 1..nAdds :
        id \notin ConfigIds(cache.allHandlers) => id \notin ConfigIds(cache'.allHandlers)
  /\ ConfigIds(cache'.allHandlers) \ ConfigIds(cache.allHandlers) # {} =>
        (lastOp'.op = "add" /\ ConfigIds(cache'.allHandlers) \ ConfigIds(cache.allHandlers) = {nAdds'})

\* C19: once remove(key) or restore() has returned, no decode that completes
\* afterwards invokes a handler it removed, until the key is added again: the
\* handlers it removed are out of the aggregate registry, a handler that is out
\* stays out until an add registers a new one, and a decode invokes only
\* handlers the aggregate registry holds when it completes.
C19_NoCallbackAfterRemoval ==
  []InvokedAreRegistered /\ [][RemovalUnregisters /\ UnregisteredStaysOut]_vars

\* a decode invoked through the wrapper has completed without invoking the
\* handler of GET:x, which had matched the same request before and was dropped
\* by restore since
C19_Witness ==
  /\ lastOp.op = "jsonComplete"
  /\ lastOp.viaWrapper
  /\ lastOp.invoked = <<>>
  /\ ~MapHas(cache.allHandlers, FullKey(KeyX))
  /\ MapHas(cache.requests, FullKey(KeyX))
  /\ MapGet(cache.requests, FullKey(KeyX)).url = lastOp.meta.url
  /\ MapGet(cache.requests, FullKey(KeyX)).method = lastOp.meta.method

\* --------------------------------------------------- replay and own handler
\* the params name exactly the tokens of the pattern's token segments, with
\* values that hold no '/' and no '?'
SuppliesTokens(pattern, params) ==
  LET ps == Segments(BeforeQuery(pattern.text))
  IN  /\ MapKeys(params) = {TokenName(ps[i]) : i \in {k \in 1..Len(ps) : IsToken(ps[k])}}
      /\ \A i \in 1..Len(params) :
            \A k \in 1..Len(params[i].val) : params[i].val[k] \notin {"/", "?"}

SameParams(a, b) ==
  /\ MapKeys(a) = MapKeys(b)
  /\ \A k \in MapKeys(a) : MapGet(a, k) = MapGet(b, k)

\* a replay issued while PATCHED has put "VERB URL" into the endpoint set
ReplayRecordsEndpoint ==
  (lastOp.op = "call" /\ lastOp.out = "ok" /\ calls[lastOp.call].wrapped) =>
     Endpoint(ParseKey(lastOp.key).verb, calls[lastOp.call].url) \in cache.accessedEndpoints

\* the decode of a replay's response, made while PATCHED and while the handler
\* the replay was built from is the session's and the aggregate registry's
\* entry for the key, invokes that handler once, with the params supplied
ReplayInvokesOwnHandler ==
  lastOp'.op = "jsonComplete" =>
     LET c == calls[lastOp'.call]
         fullKey == FullKey(c.origin.key)
         own == {j \in 1..Len(lastOp'.invoked) :
                   lastOp'.invoked[j].key = fullKey /\ lastOp'.invoked[j].id = c.origin.id}
     IN  (/\ c.origin.s # 0
          /\ c.wrapped
          /\ c.viaWrapper
          /\ Patched
          /\ MapHas(sessions[c.origin.s].handlers, fullKey)
          /\ MapHas(cache.allHandlers, fullKey)
          /\ MapGet(sessions[c.origin.s].handlers, fullKey).id = c.origin.id
          /\ MapGet(cache.allHandlers, fullKey).id = c.origin.id
          /\ SuppliesTokens(MapGet(cache.allHandlers, fullKey).pattern, c.origin.params)) =>
            /\ Cardinality(own) = 1
            /\ \A j \in own : SameParams(lastOp'.invoked[j].params, c.origin.params)

\* C20: while PATCHED and while the session's handler for the key is the
\* aggregate registry's entry, a successful call whose params supply exactly
\* the pattern's tokens records "VERB URL" in the endpoint set, and the decode
\* of its response invokes the key's handler once with the params supplied.
C20_ReplayTriggersOwnHandler ==
  []ReplayRecordsEndpoint /\ [][ReplayInvokesOwnHandler]_vars

====
